---- MODULE Spec2Model ----
(***************************************************************************)
(* Wake-on-LAN manager: the magic-packet codec (send_wol_packet's packet    *)
(* construction and is_wol_packet), the two senders and the two monitor     *)
(* loops, modelled from wake_on_lan_script.py, wol_monitor.py and           *)
(* wol_manager.py.                                                          *)
(*                                                                          *)
(* Text is a sequence of one-character strings, bytes are a sequence of     *)
(* integers 0..255.                                                         *)
(***************************************************************************)
EXTENDS Integers, Sequences, FiniteSets, TLC

VARIABLES
    \* ---- codec harness: the arguments and results of the pure functions
    c_mac_address,   \* text given to the packet construction
    c_target_mac,    \* target_mac argument of is_wol_packet
    c_encoded,       \* <<result of the packet construction>>, <<>> before it
    c_data,          \* data argument of the last is_wol_packet call
    c_result,        \* its return value: <<FALSE>> or <<TRUE, mac_str>>
    \* ---- one call of send_wol_packet (locals of the last call)
    mac_address,     \* argument
    broadcast,       \* argument
    port,            \* argument
    variant,         \* "script" (wake_on_lan_script.py) or "manager" (WoLManager)
    mac_bytes,       \* local mac_bytes, <<>> when never assigned
    magic_packet,    \* local magic_packet, <<>> when never assigned
    sock,            \* sending socket: "none", "open" or "closed"
    recv_socket,     \* response socket: "none", "open" or "closed"
    oscalls,         \* socket-API calls made by the call, in order
    ret,             \* "pending", "True" or "False"
    \* ---- one monitor session (locals of monitor_wol_packets)
    m_target_mac,    \* filter argument target_mac, None when absent
    sockets,         \* the list sockets: <<[port, state]>>, state "open" or "closed"
    m_sock,          \* a socket created but never appended to sockets: "none" or "open"
    m_pc,            \* "none", "start", "bind", "loop", "recv", "finally", "done"
    m_i,             \* index of the for loop the session is in
    m_raised,        \* an exception left monitor_wol_packets
    m_data,          \* local data: the datagram of the last recvfrom that returned one
    last,            \* what the last receive attempt led to
    events,          \* "WoL Packet Received!" reports of the session
    errors,          \* error reports of the session
    budget,          \* datagrams and receive errors the environment may still deliver
    after_stop,      \* per socket: receive attempts made while is_monitoring is False
    polled,          \* ports a receive was attempted on in the current pass over sockets
    \* ---- WoLManager: the flag, and where show_menu is
    is_monitoring,
    menu_pc,         \* "n/a", "menu", "input", "join"
    n_alive,         \* number of monitor threads started and not yet ended
    \* ---- one call of get_comprehensive_network_info
    i_system,        \* platform.system()
    i_interfaces,    \* what the libraries answer for each interface, in order
    i_k,             \* index of the for loop over interfaces
    network_interfaces,  \* network_info["network_interfaces"]
    i_printed,       \* names of the interfaces an "Error processing interface" was printed for
    i_pc,            \* "n/a", "loop", "done"
    \* ---- one call of check_windows_wol_support
    w_open,          \* outcome of opening the class key: "ok" or "error"
    w_subkeys,       \* what each subkey of the class key holds, in order
    w_netsh,         \* outcome of the netsh command
    w_k,             \* index of the for loop over subkeys
    w_notes,         \* wol_support["wol_config_notes"]
    wol_support,     \* wol_support["wol_support"]
    w_pc,            \* "n/a", "open", "subkeys", "netsh", "flag", "done"
    \* ---- one run of main
    network_info,    \* what get_comprehensive_network_info returned
    g_write,         \* outcome of writing wol_config.json: "ok" or "error"
    config_file,     \* local config_file of main: <<file name>> or None
    g_out,           \* lines printed, in order
    main_k,          \* index of the for loop over the interface records
    main_raised,     \* an exception left main
    main_pc,         \* "n/a", "info", "config", "guide", "list", "done"
    \* ---- one request to the /wake route
    r_app,           \* "app" (app.py) or "manager" (wol_manager.py)
    r_request,       \* the JSON body of the request
    r_sends,         \* arguments of the send_wol_packet calls made, in order
    r_response,      \* [status, key] of the answer, <<>> before it
    r_pc             \* "n/a", "request", "send", "answer", "done"

codecVars  == <<c_mac_address, c_target_mac, c_encoded, c_data, c_result>>
senderVars == <<mac_address, broadcast, port, variant, mac_bytes, magic_packet, sock,
                recv_socket, oscalls, ret>>
monitorVars == <<m_target_mac, sockets, m_sock, m_pc, m_i, m_raised, m_data, last,
                 events, errors, budget, after_stop, polled>>
managerVars == <<is_monitoring, menu_pc, n_alive>>
infoVars == <<i_system, i_interfaces, i_k, network_interfaces, i_printed, i_pc>>
supportVars == <<w_open, w_subkeys, w_netsh, w_k, w_notes, wol_support, w_pc>>
mainVars == <<network_info, g_write, config_file, g_out, main_k, main_raised, main_pc>>
routeVars == <<r_app, r_request, r_sends, r_response, r_pc>>
toolVars == <<infoVars, supportVars, mainVars, routeVars>>
vars == <<codecVars, senderVars, monitorVars, managerVars, toolVars>>

-----------------------------------------------------------------------------
(* Bounds of the model *)

\* how many of the sample MAC addresses are used as inputs
MaxMacs == 3

\* how many datagrams and receive errors a monitor session is delivered
MaxDatagrams == 2

\* how many datagrams and receive errors are delivered to the monitor session
\* that runs next to a web request
WebDatagrams == 1

\* how many subkeys the network-adapter class key of the registry has at most
MaxSubkeys == 2

\* how many network interfaces netifaces.interfaces() lists at most
MaxInterfaces == 2

\* how many interface records the network info given to main holds at most
MaxRecords == 2

\* where the count of receive attempts after a stop saturates
AfterStopCap == 3

-----------------------------------------------------------------------------
(* Characters and bytes *)

HexLower == <<"0","1","2","3","4","5","6","7","8","9","a","b","c","d","e","f">>
HexUpper == <<"0","1","2","3","4","5","6","7","8","9","A","B","C","D","E","F">>

UpperLetters == <<"A","B","C","D","E","F","G","H","I","J","K","L","M",
                  "N","O","P","Q","R","S","T","U","V","W","X","Y","Z">>
LowerLetters == <<"a","b","c","d","e","f","g","h","i","j","k","l","m",
                  "n","o","p","q","r","s","t","u","v","w","x","y","z">>

\* ASCII whitespace skipped by bytes.fromhex
Whitespace == {" "}

\* python None for an absent target_mac (no text is equal to it)
None == <<"None">>

\* str.lower() on one character
lower_char(c) ==
    IF \E i \in 1..26 : UpperLetters[i] = c
    THEN LowerLetters[CHOOSE i \in 1..26 : UpperLetters[i] = c]
    ELSE c

\* str.lower()
lower(s) == [i \in 1..Len(s) |-> lower_char(s[i])]

\* str.replace(old, '') for a one-character old
replace(s, old) == SelectSeq(s, LAMBDA c : c # old)

IsHexChar(c) == \E i \in 1..16 : HexLower[i] = c \/ HexUpper[i] = c

HexVal(c) == (CHOOSE i \in 1..16 : HexLower[i] = c \/ HexUpper[i] = c) - 1

\* bytes.fromhex: whitespace is skipped before each pair of digits, a pair is
\* two adjacent hex digits of either case, anything else is a ValueError
RECURSIVE fromhex_from(_, _, _)
fromhex_from(s, i, acc) ==
    IF i > Len(s) THEN [ok |-> TRUE, bytes |-> acc]
    ELSE IF s[i] \in Whitespace THEN fromhex_from(s, i + 1, acc)
    ELSE IF i + 1 <= Len(s) /\ IsHexChar(s[i]) /\ IsHexChar(s[i + 1])
         THEN fromhex_from(s, i + 2, Append(acc, 16 * HexVal(s[i]) + HexVal(s[i + 1])))
    ELSE [ok |-> FALSE, bytes |-> <<>>]

fromhex(s) == fromhex_from(s, 1, <<>>)

\* f'{b:x}': the zero padding forgotten
format_x_unpadded(b) ==
    IF b < 16 THEN <<HexLower[b + 1]>>
    ELSE <<HexLower[(b \div 16) + 1], HexLower[(b % 16) + 1]>>

\* f'{b:02x}'
format_02x(b) == <<HexLower[(b \div 16) + 1], HexLower[(b % 16) + 1]>>

\* sep.join(parts)
RECURSIVE join(_, _)
join(sep, parts) ==
    IF parts = <<>> THEN <<>>
    ELSE IF Len(parts) = 1 THEN parts[1]
    ELSE parts[1] \o sep \o join(sep, Tail(parts))

\* bytes * n
RECURSIVE repeat(_, _)
repeat(b, n) == IF n <= 0 THEN <<>> ELSE b \o repeat(b, n - 1)

\* data[lo:hi] (0-based, half open, clipped to the length as python does)
slice(data, lo, hi) ==
    LET h == IF hi < Len(data) THEN hi ELSE Len(data)
    IN  IF lo >= h THEN <<>> ELSE SubSeq(data, lo + 1, h)

-----------------------------------------------------------------------------
(* The codec *)

\* the packet construction with one copy of the MAC too few
make_magic_packet_15_copies(text) ==
    LET parsed == fromhex(replace(replace(text, ":"), "-"))
    IN  IF parsed.ok
        THEN [ok |-> TRUE, mac_bytes |-> parsed.bytes,
              magic_packet |-> repeat(<<255>>, 6) \o repeat(parsed.bytes, 15)]
        ELSE [ok |-> FALSE, mac_bytes |-> <<>>, magic_packet |-> <<>>]

\* send_wol_packet, the packet construction: mac_bytes and magic_packet, or
\* the ValueError of bytes.fromhex
make_magic_packet(text) ==
    LET parsed == fromhex(replace(replace(text, ":"), "-"))
    IN  IF parsed.ok
        THEN [ok |-> TRUE, mac_bytes |-> parsed.bytes,
              magic_packet |-> repeat(<<255>>, 6) \o repeat(parsed.bytes, 16)]
        ELSE [ok |-> FALSE, mac_bytes |-> <<>>, magic_packet |-> <<>>]

\* python truth value of the target_mac argument
truthy(t) == t # None /\ t # <<>>

mac_str_of(data) ==
    LET mb == slice(data, 6, 12)
    IN  join(<<":">>, [i \in 1..Len(mb) |-> format_02x(mb[i])])

\* is_wol_packet that also requires the 16 copies to agree
is_wol_packet_all_copies(data, target_mac) ==
    IF Len(data) # 102 THEN <<FALSE>>
    ELSE IF slice(data, 0, 6) # repeat(<<255>>, 6) THEN <<FALSE>>
    ELSE IF slice(data, 6, 102) # repeat(slice(data, 6, 12), 16) THEN <<FALSE>>
    ELSE LET mac_str == mac_str_of(data)
         IN  IF truthy(target_mac)
                /\ lower(replace(replace(target_mac, ":"), "-"))
                     # lower(replace(mac_str, ":"))
             THEN <<FALSE>>
             ELSE <<TRUE, mac_str>>

\* is_wol_packet that compares the target as typed, only lower-cased
is_wol_packet_as_typed(data, target_mac) ==
    IF Len(data) # 102 THEN <<FALSE>>
    ELSE IF slice(data, 0, 6) # repeat(<<255>>, 6) THEN <<FALSE>>
    ELSE LET mac_str == mac_str_of(data)
         IN  IF truthy(target_mac) /\ lower(target_mac) # lower(mac_str)
             THEN <<FALSE>>
             ELSE <<TRUE, mac_str>>

\* is_wol_packet: a bare False is <<FALSE>>, the pair (True, mac_str) is
\* <<TRUE, mac_str>>
is_wol_packet(data, target_mac) ==
    IF Len(data) # 102 THEN <<FALSE>>
    ELSE IF slice(data, 0, 6) # repeat(<<255>>, 6) THEN <<FALSE>>
    ELSE LET mac_str == mac_str_of(data)
         IN  IF truthy(target_mac)
                /\ lower(replace(replace(target_mac, ":"), "-"))
                     # lower(replace(mac_str, ":"))
             THEN <<FALSE>>
             ELSE <<TRUE, mac_str>>

-----------------------------------------------------------------------------
(* Inputs *)

SampleMacs ==
    << <<44, 77, 84, 207, 247, 193>>,      \* 2c:4d:54:cf:f7:c1
       <<170, 187, 204, 221, 238, 255>>,   \* aa:bb:cc:dd:ee:ff
       <<0, 10, 16, 159, 240, 255>>,       \* 00:0a:10:9f:f0:ff
       <<170, 170, 170, 170, 170, 170>>,   \* aa:aa:aa:aa:aa:aa
       <<1, 35, 69, 103, 137, 171>>,       \* 01:23:45:67:89:ab
       <<255, 255, 255, 255, 255, 255>> >> \* ff:ff:ff:ff:ff:ff

Macs == {SampleMacs[i] : i \in {j \in 1..Len(SampleMacs) : j <= MaxMacs}}

\* the six bytes m written with the digits of table and the separator sep
mac_text(m, sep, table) ==
    join(sep, [i \in 1..6 |-> <<table[(m[i] \div 16) + 1], table[(m[i] % 16) + 1]>>])

Separators == {<<":">>, <<"-">>, <<>>}

WellFormedTexts ==
    {mac_text(m, sep, table) : m \in Macs, sep \in Separators, table \in {HexLower, HexUpper}}

MalformedTexts ==
    { <<"n","o","t","-","a","-","m","a","c">>,      \* "not-a-mac"
      <<"a","a",":","b","b",":","c","c">>,        \* "aa:bb:cc"
      <<"g","g",":","h","h",":","i","i",":","j","j",":","k","k",":","l","l">>,       \* "gg:hh:ii:jj:kk:ll"
      <<>>,           \* ""
      <<"a","a"," ","b","b"," ","c","c"," ","d","d"," ","e","e"," ","f","f">>,       \* "aa bb cc dd ee ff"
      <<"a","a",":","b","b",":","c","c",":","d","d",":","e","e",":","f","f",":","0","0">>,        \* "aa:bb:cc:dd:ee:ff:00"
      <<"a","a",":","b","b",":","c","c",":","d","d",":","e","e",":","f">> }         \* "aa:bb:cc:dd:ee:f"

MacTexts == WellFormedTexts \cup MalformedTexts

Filters == {None, <<>>, <<":", ":">>} \cup WellFormedTexts

\* data with the bytes lo+1..hi replaced by the byte b
overwrite(data, lo, hi, b) ==
    [i \in 1..Len(data) |-> IF i > lo /\ i <= hi THEN b ELSE data[i]]

\* the datagrams a receiver is handed: the packet as sent, truncated, extended,
\* with one synchronisation byte zeroed, with the 15 further copies altered
Datagrams(packet) ==
    {packet, packet \o <<0>>, <<>>, repeat(<<255>>, 102), overwrite(packet, 12, 102, 0)}
    \cup (IF packet = <<>> THEN {} ELSE {SubSeq(packet, 1, Len(packet) - 1)})
    \cup {overwrite(packet, k - 1, k, 0) : k \in {1, 6}}

PortArgs == {7, 9}

-----------------------------------------------------------------------------
(* Codec harness: the packet construction and is_wol_packet applied to       *)
(* inputs drawn in the initial state                                         *)

SenderIdle ==
    /\ mac_address = <<>>
    /\ broadcast = "255.255.255.255"
    /\ port = 9
    /\ variant = "script"
    /\ mac_bytes = <<>>
    /\ magic_packet = <<>>
    /\ sock = "none"
    /\ recv_socket = "none"
    /\ oscalls = <<>>
    /\ ret = "pending"

CodecIdle ==
    /\ c_mac_address = <<>>
    /\ c_target_mac = None
    /\ c_encoded = <<>>
    /\ c_data = <<>>
    /\ c_result = <<>>

MonitorIdle ==
    /\ m_target_mac = None
    /\ sockets = <<>>
    /\ m_sock = "none"
    /\ m_pc = "none"
    /\ m_i = 1
    /\ m_raised = FALSE
    /\ m_data = <<>>
    /\ last = [kind |-> "none", port |-> 0, emitted |-> FALSE, reported |-> FALSE]
    /\ events = <<>>
    /\ errors = <<>>
    /\ budget = 0
    /\ after_stop = <<0, 0>>
    /\ polled = <<>>

ManagerIdle ==
    /\ is_monitoring = FALSE
    /\ menu_pc = "n/a"
    /\ n_alive = 0


InfoIdle ==
    /\ i_system = "Linux"
    /\ i_interfaces = <<>>
    /\ i_k = 1
    /\ network_interfaces = <<>>
    /\ i_printed = <<>>
    /\ i_pc = "n/a"

SupportIdle ==
    /\ w_open = "ok"
    /\ w_subkeys = <<>>
    /\ w_netsh = "ok"
    /\ w_k = 1
    /\ w_notes = <<>>
    /\ wol_support = FALSE
    /\ w_pc = "n/a"

MainIdle ==
    /\ network_info = [network_interfaces |-> <<>>]
    /\ g_write = "ok"
    /\ config_file = None
    /\ g_out = <<>>
    /\ main_k = 1
    /\ main_raised = FALSE
    /\ main_pc = "n/a"

RouteIdle ==
    /\ r_app = "app"
    /\ r_request = <<>>
    /\ r_sends = <<>>
    /\ r_response = <<>>
    /\ r_pc = "n/a"

ToolsIdle == InfoIdle /\ SupportIdle /\ MainIdle /\ RouteIdle

CodecInit ==
    /\ c_mac_address \in MacTexts
    /\ c_target_mac \in Filters
    /\ c_encoded = <<>>
    /\ c_data = <<>>
    /\ c_result = <<>>
    /\ SenderIdle
    /\ MonitorIdle
    /\ ManagerIdle
    /\ ToolsIdle

\* send_wol_packet lines 150-153 applied to c_mac_address
Encode ==
    /\ c_encoded = <<>>
    /\ c_encoded' = <<make_magic_packet(c_mac_address)>>
    /\ UNCHANGED <<c_mac_address, c_target_mac, c_data, c_result>>
    /\ UNCHANGED <<senderVars, monitorVars, managerVars>>
    /\ UNCHANGED toolVars

\* is_wol_packet applied to a datagram derived from the encoded packet
Decode ==
    /\ c_encoded # <<>>
    /\ \E d \in Datagrams(c_encoded[1].magic_packet) :
          /\ c_data' = d
          /\ c_result' = is_wol_packet(d, c_target_mac)
    /\ UNCHANGED <<c_mac_address, c_target_mac, c_encoded>>
    /\ UNCHANGED <<senderVars, monitorVars, managerVars>>
    /\ UNCHANGED toolVars

CodecNext == Encode \/ Decode

CodecSpec == CodecInit /\ [][CodecNext]_vars

-----------------------------------------------------------------------------
(* The senders: one action per call, the outcome of every socket-API call    *)
(* chosen by the environment                                                 *)

BroadcastArgs == {"255.255.255.255", "192.168.3.255"}

\* one socket-API call: which socket, which call, what it was given, whether
\* it raised
Call(s, op, d, addr, raised) ==
    [sock |-> s, op |-> op, data |-> d, addr |-> addr, raised |-> raised]

\* where the sending part fails ("ok": nowhere), and how the response listen
\* of wake_on_lan_script.py ends ("n/a": not reached or not present)
MainOutcomes   == {"socket", "setsockopt", "sendto", "close", "ok"}
ListenOutcomes == {"socket", "bind", "data", "timeout", "error"}

ScriptOutcomes ==
    {[main |-> m, listen |-> "n/a"] : m \in {"socket", "setsockopt", "sendto"}}
    \cup {[main |-> m, listen |-> l] : m \in {"close", "ok"}, l \in ListenOutcomes}

ManagerOutcomes == {[main |-> m, listen |-> "n/a"] : m \in MainOutcomes}



\* the fields of the value send_wol_packet returns: `return True` or
\* `return False`, a bare bool that carries the outcome and nothing else
returned_fields(r) == IF r \in {"True", "False"} THEN {"success"} ELSE {}

\* the sending calls with sendto issued before the broadcast option is set
SendingCalls_OptionAfterSend(packet, b, p, main) ==
    LET c1 == Call("sock", "socket", <<>>, <<>>, main = "socket")
        c2 == Call("sock", "setsockopt", <<>>, <<>>, main = "setsockopt")
        c3 == Call("sock", "sendto", packet, <<b, p>>, main = "sendto")
    IN  IF main = "socket" THEN <<c1>>
        ELSE IF main = "sendto" THEN <<c1, c3>>
        ELSE <<c1, c3, c2>>

\* lines 161-166 (script) and 159-163 (manager): socket, setsockopt, sendto;
\* the calls made up to and including the one that raises
SendingCalls(packet, b, p, main) ==
    LET c1 == Call("sock", "socket", <<>>, <<>>, main = "socket")
        c2 == Call("sock", "setsockopt", <<>>, <<>>, main = "setsockopt")
        c3 == Call("sock", "sendto", packet, <<b, p>>, main = "sendto")
    IN  IF main = "socket" THEN <<c1>>
        ELSE IF main = "setsockopt" THEN <<c1, c2>>
        ELSE <<c1, c2, c3>>

\* lines 170-185 of wake_on_lan_script.py: the response listen
ListenCalls(p, listen) ==
    LET c1 == Call("recv_socket", "socket", <<>>, <<>>, listen = "socket")
        c2 == Call("recv_socket", "settimeout", <<>>, <<>>, FALSE)
        c3 == Call("recv_socket", "bind", <<>>, <<"", p>>, listen = "bind")
        c4 == Call("recv_socket", "recvfrom", <<>>, <<>>, listen \in {"timeout", "error"})
        c5 == Call("recv_socket", "close", <<>>, <<>>, FALSE)
    IN  IF listen = "socket" THEN <<c1>>
        ELSE IF listen = "bind" THEN <<c1, c2, c3>>
        ELSE IF listen = "error" THEN <<c1, c2, c3, c4>>
        ELSE <<c1, c2, c3, c4, c5>>

\* state of recv_socket when the response listen is over: only the data and
\* timeout paths reach recv_socket.close()
ListenSocket(listen) ==
    IF listen = "socket" THEN "none"
    ELSE IF listen \in {"bind", "error"} THEN "open"
    ELSE "closed"

\* send_wol_packet without the inner try/except around the response listen:
\* a failure to listen reaches the outer handler
send_wol_packet_ListenFailureFails(os) ==
    LET enc == make_magic_packet(mac_address)
    IN  /\ variant = "script"
        /\ ret = "pending"
        /\ mac_bytes' = enc.mac_bytes
        /\ magic_packet' = enc.magic_packet
        /\ IF ~enc.ok
           THEN /\ os = [main |-> "ok", listen |-> "timeout"]
                /\ oscalls' = <<>>
                /\ sock' = "none"
                /\ recv_socket' = "none"
                /\ ret' = "False"
           ELSE IF os.main \in {"socket", "setsockopt", "sendto"}
           THEN /\ oscalls' = SendingCalls(enc.magic_packet, broadcast, port, os.main)
                /\ sock' = IF os.main = "socket" THEN "none" ELSE "open"
                /\ recv_socket' = "none"
                /\ ret' = "False"
           ELSE /\ oscalls' = SendingCalls(enc.magic_packet, broadcast, port, os.main)
                                \o ListenCalls(port, os.listen)
                                \o <<Call("sock", "close", <<>>, <<>>, os.main = "close")>>
                /\ sock' = "closed"
                /\ recv_socket' = ListenSocket(os.listen)
                /\ ret' = IF os.main = "close" \/ os.listen \in {"socket", "bind", "error"}
                          THEN "False" ELSE "True"
        /\ UNCHANGED <<mac_address, broadcast, port, variant>>
        /\ UNCHANGED <<codecVars, monitorVars, managerVars>>
        /\ UNCHANGED toolVars

\* wake_on_lan_script.send_wol_packet, called with the arguments drawn in the
\* initial state
send_wol_packet(os) ==
    LET enc == make_magic_packet(mac_address)
    IN  /\ variant = "script"
        /\ ret = "pending"
        /\ mac_bytes' = enc.mac_bytes
        /\ magic_packet' = enc.magic_packet
        /\ IF ~enc.ok
           THEN /\ os = [main |-> "ok", listen |-> "timeout"]
                /\ oscalls' = <<>>
                /\ sock' = "none"
                /\ recv_socket' = "none"
                /\ ret' = "False"
           ELSE IF os.main \in {"socket", "setsockopt", "sendto"}
           THEN /\ oscalls' = SendingCalls(enc.magic_packet, broadcast, port, os.main)
                /\ sock' = IF os.main = "socket" THEN "none" ELSE "open"
                /\ recv_socket' = "none"
                /\ ret' = "False"
           ELSE /\ oscalls' = SendingCalls(enc.magic_packet, broadcast, port, os.main)
                                \o ListenCalls(port, os.listen)
                                \o <<Call("sock", "close", <<>>, <<>>, os.main = "close")>>
                /\ sock' = "closed"
                /\ recv_socket' = ListenSocket(os.listen)
                /\ ret' = IF os.main = "close" THEN "False" ELSE "True"
        /\ UNCHANGED <<mac_address, broadcast, port, variant>>
        /\ UNCHANGED <<codecVars, monitorVars, managerVars>>
        /\ UNCHANGED toolVars

\* WoLManager.send_wol_packet with an assignment self.is_monitoring = False
WoLManager_send_wol_packet_ClearsFlag(os) ==
    LET enc == make_magic_packet(mac_address)
    IN  /\ variant = "manager"
        /\ ret = "pending"
        /\ mac_bytes' = enc.mac_bytes
        /\ magic_packet' = enc.magic_packet
        /\ recv_socket' = "none"
        /\ IF ~enc.ok
           THEN /\ os = [main |-> "ok", listen |-> "n/a"]
                /\ oscalls' = <<>>
                /\ sock' = "none"
                /\ ret' = "False"
           ELSE IF os.main \in {"socket", "setsockopt", "sendto"}
           THEN /\ oscalls' = SendingCalls(enc.magic_packet, broadcast, port, os.main)
                /\ sock' = IF os.main = "socket" THEN "none" ELSE "open"
                /\ ret' = "False"
           ELSE /\ oscalls' = SendingCalls(enc.magic_packet, broadcast, port, os.main)
                                \o <<Call("sock", "close", <<>>, <<>>, os.main = "close")>>
                /\ sock' = "closed"
                /\ ret' = IF os.main = "close" THEN "False" ELSE "True"
        /\ UNCHANGED <<mac_address, broadcast, port, variant>>
        /\ is_monitoring' = FALSE
        /\ UNCHANGED <<menu_pc, n_alive>>
        /\ UNCHANGED <<codecVars, monitorVars>>
        /\ UNCHANGED toolVars

\* WoLManager.send_wol_packet, called with the arguments drawn in the initial
\* state
WoLManager_send_wol_packet(os) ==
    LET enc == make_magic_packet(mac_address)
    IN  /\ variant = "manager"
        /\ ret = "pending"
        /\ mac_bytes' = enc.mac_bytes
        /\ magic_packet' = enc.magic_packet
        /\ recv_socket' = "none"
        /\ IF ~enc.ok
           THEN /\ os = [main |-> "ok", listen |-> "n/a"]
                /\ oscalls' = <<>>
                /\ sock' = "none"
                /\ ret' = "False"
           ELSE IF os.main \in {"socket", "setsockopt", "sendto"}
           THEN /\ oscalls' = SendingCalls(enc.magic_packet, broadcast, port, os.main)
                /\ sock' = IF os.main = "socket" THEN "none" ELSE "open"
                /\ ret' = "False"
           ELSE /\ oscalls' = SendingCalls(enc.magic_packet, broadcast, port, os.main)
                                \o <<Call("sock", "close", <<>>, <<>>, os.main = "close")>>
                /\ sock' = "closed"
                /\ ret' = IF os.main = "close" THEN "False" ELSE "True"
        /\ UNCHANGED <<mac_address, broadcast, port, variant>>
        /\ UNCHANGED <<codecVars, monitorVars, managerVars>>
        /\ UNCHANGED toolVars

Init ==
    /\ CodecIdle
    /\ MonitorIdle
    /\ ManagerIdle
    /\ mac_address \in MacTexts
    /\ broadcast \in BroadcastArgs
    /\ port \in PortArgs
    /\ variant \in {"script", "manager"}
    /\ mac_bytes = <<>>
    /\ magic_packet = <<>>
    /\ sock = "none"
    /\ recv_socket = "none"
    /\ oscalls = <<>>
    /\ ret = "pending"
    /\ ToolsIdle

Next ==
    \/ \E os \in ScriptOutcomes : send_wol_packet(os)
    \/ \E os \in ManagerOutcomes : WoLManager_send_wol_packet(os)

Spec == Init /\ [][Next]_vars

-----------------------------------------------------------------------------
(* The monitors: inputs *)

\* ports = [7, 9]
Ports == <<7, 9>>

\* the datagrams that arrive at a monitored port
MonitorDatagrams ==
    LET p1 == make_magic_packet(mac_text(SampleMacs[1], <<":">>, HexLower)).magic_packet
        p2 == make_magic_packet(mac_text(SampleMacs[2], <<":">>, HexLower)).magic_packet
    IN  {p1, p2, SubSeq(p1, 1, 101), p1 \o <<0>>, overwrite(p1, 2, 3, 0),
         overwrite(p1, 12, 102, 0)}

\* what one recvfrom does: times out, raises another error, or returns a datagram
RecvOutcomes ==
    {[kind |-> "timeout", data |-> <<>>], [kind |-> "error", data |-> <<>>]}
    \cup {[kind |-> "data", data |-> d] : d \in MonitorDatagrams}

\* the target_mac a session is started with
MonitorFilters ==
    {None} \cup {mac_text(SampleMacs[1], sep, table) :
                    sep \in Separators, table \in {HexLower, HexUpper}}

\* what is typed at "Enter MAC address to filter (optional): "
MenuFilterInputs == (MonitorFilters \ {None}) \cup {<<>>}

\* where the set-up of one port fails ("ok": nowhere)
BindOutcomes == {"ok", "socket", "setsockopt", "bind", "settimeout"}

Socket(p) == [port |-> p, state |-> "open", close_raised |-> FALSE]


\* the finally clause without the inner try/except: the first close() that
\* raises ends the loop, the sockets after it are never closed
CloseAll_FirstRaiseAborts(socks, raises) ==
    [i \in 1..Len(socks) |->
        IF \E j \in raises : j < i
        THEN socks[i]
        ELSE [port |-> socks[i].port, state |-> "closed", close_raised |-> i \in raises]]

\* the finally clause: close() on every entry of sockets, the ones in raises
\* raising inside the bare try/except
CloseAll(socks, raises) ==
    [i \in 1..Len(socks) |->
        [port |-> socks[i].port, state |-> "closed", close_raised |-> i \in raises]]

NoReceive == [kind |-> "none", port |-> 0, emitted |-> FALSE, reported |-> FALSE]

Received(kind, p, emitted, reported) ==
    [kind |-> kind, port |-> p, emitted |-> emitted, reported |-> reported]

Event(p, mac_str, d) == [port |-> p, mac |-> mac_str, size |-> Len(d)]

-----------------------------------------------------------------------------
(* wol_monitor.monitor_wol_packets *)


\* the set-up that skips a port it cannot bind and monitors the others
M_Bind_SkipFailedPort(o) ==
    /\ m_pc = "bind"
    /\ IF o = "ok"
       THEN /\ sockets' = Append(sockets, Socket(Ports[m_i]))
            /\ UNCHANGED <<m_sock, errors>>
       ELSE /\ m_sock' = IF o = "socket" THEN "none" ELSE "open"
            /\ errors' = Append(errors, "Error setting up monitor")
            /\ UNCHANGED sockets
    /\ IF m_i < Len(Ports)
       THEN m_pc' = "bind" /\ m_i' = m_i + 1
       ELSE /\ m_i' = 1
            /\ m_pc' = IF sockets' = <<>> THEN "finally" ELSE "recv"
    /\ UNCHANGED <<m_target_mac, m_raised, m_data, last, events, budget, after_stop, polled>>
    /\ UNCHANGED <<codecVars, senderVars, managerVars>>
    /\ UNCHANGED toolVars

\* lines 40-45, one port of the for loop
M_Bind(o) ==
    /\ m_pc = "bind"
    /\ IF o = "ok"
       THEN /\ sockets' = Append(sockets, Socket(Ports[m_i]))
            /\ IF m_i = Len(Ports)
               THEN m_pc' = "recv" /\ m_i' = 1
               ELSE m_pc' = "bind" /\ m_i' = m_i + 1
            /\ UNCHANGED <<m_sock, errors>>
       ELSE /\ m_sock' = IF o = "socket" THEN "none" ELSE "open"
            /\ errors' = Append(errors, "Error setting up monitor")
            /\ m_pc' = "finally"
            /\ UNCHANGED <<sockets, m_i>>
    /\ UNCHANGED <<m_target_mac, m_raised, m_data, last, events, budget, after_stop, polled>>
    /\ UNCHANGED <<codecVars, senderVars, managerVars>>
    /\ UNCHANGED toolVars

\* lines 56-72, one socket of the for loop inside while True
M_Recv(o) ==
    /\ m_pc = "recv"
    /\ o.kind # "timeout" => budget > 0
    /\ LET p == sockets[m_i].port
           r == is_wol_packet(o.data, m_target_mac)
       IN  IF o.kind = "timeout"
           THEN /\ last' = Received("timeout", p, FALSE, FALSE)
                /\ UNCHANGED <<m_data, events, errors, budget>>
           ELSE IF o.kind = "error"
           THEN /\ last' = Received("error", p, FALSE, TRUE)
                /\ errors' = Append(errors, "Error receiving packet")
                /\ budget' = budget - 1
                /\ UNCHANGED <<m_data, events>>
           ELSE /\ m_data' = o.data
                /\ budget' = budget - 1
                /\ IF Len(r) # 2
                   THEN \* is_wol, mac = False raises TypeError, caught at line 71
                        /\ last' = Received("data", p, FALSE, TRUE)
                        /\ errors' = Append(errors, "Error receiving packet")
                        /\ UNCHANGED events
                   ELSE IF r[1]
                   THEN /\ last' = Received("data", p, TRUE, FALSE)
                        /\ events' = Append(events, Event(p, r[2], o.data))
                        /\ UNCHANGED errors
                   ELSE /\ last' = Received("data", p, FALSE, FALSE)
                        /\ UNCHANGED <<events, errors>>
    /\ m_i' = IF m_i = Len(sockets) THEN 1 ELSE m_i + 1
    /\ polled' = IF m_i = 1 THEN <<sockets[m_i].port>>
                            ELSE Append(polled, sockets[m_i].port)
    /\ UNCHANGED <<m_target_mac, sockets, m_sock, m_pc, m_raised, after_stop>>
    /\ UNCHANGED <<codecVars, senderVars, managerVars>>
    /\ UNCHANGED toolVars

\* Ctrl-C: caught at line 74 inside the loop, not caught during the set-up
\* (line 77 catches Exception only), where a socket may just have been created
M_KeyboardInterrupt ==
    /\ m_pc \in {"bind", "recv"}
    /\ m_pc' = "finally"
    /\ m_raised' = (m_pc = "bind")
    /\ IF m_pc = "bind" THEN m_sock' \in {"none", "open"} ELSE m_sock' = m_sock
    /\ UNCHANGED <<m_target_mac, sockets, m_i, m_data, last, events, errors, budget,
                   after_stop, polled>>
    /\ UNCHANGED <<codecVars, senderVars, managerVars>>
    /\ UNCHANGED toolVars

\* lines 80-85
M_Finally(raises) ==
    /\ m_pc = "finally"
    /\ sockets' = CloseAll(sockets, raises)
    /\ m_pc' = "done"
    /\ UNCHANGED <<m_target_mac, m_sock, m_i, m_raised, m_data, last, events, errors,
                   budget, after_stop, polled>>
    /\ UNCHANGED <<codecVars, senderVars, managerVars>>
    /\ UNCHANGED toolVars

MonitorInit ==
    /\ CodecIdle
    /\ SenderIdle
    /\ ManagerIdle
    /\ m_target_mac \in MonitorFilters
    /\ sockets = <<>>
    /\ m_sock = "none"
    /\ m_pc = "bind"
    /\ m_i = 1
    /\ m_raised = FALSE
    /\ m_data = <<>>
    /\ last = NoReceive
    /\ events = <<>>
    /\ errors = <<>>
    /\ budget = MaxDatagrams
    /\ after_stop = <<0, 0>>
    /\ polled = <<>>
    /\ ToolsIdle

MonitorNext ==
    \/ \E o \in BindOutcomes : M_Bind(o)
    \/ \E o \in RecvOutcomes : M_Recv(o)
    \/ M_KeyboardInterrupt
    \/ \E raises \in SUBSET (1..Len(sockets)) : M_Finally(raises)

MonitorSpec == MonitorInit /\ [][MonitorNext]_vars

-----------------------------------------------------------------------------
(* WoLManager: show_menu choice '4' on the menu thread, monitor_wol_packets   *)
(* on the monitor thread                                                     *)

\* self.monitor_thread is set and is_alive()
MonitorAlive == m_pc \notin {"none", "done"}

Min(a, b) == IF a < b THEN a ELSE b


\* choice 4 written like choice 5 without its test: the thread is started
\* whether or not one is alive and the menu does not wait for it
Menu_StartMonitor_FireAndForget(mac) ==
    /\ menu_pc = "menu"
    /\ m_target_mac' = IF mac # <<>> THEN mac ELSE None
    /\ m_pc' = "start"
    /\ sockets' = <<>>
    /\ m_sock' = "none"
    /\ m_i' = 1
    /\ m_raised' = FALSE
    /\ m_data' = <<>>
    /\ last' = NoReceive
    /\ events' = <<>>
    /\ errors' = <<>>
    /\ after_stop' = <<0, 0>>
    /\ polled' = <<>>
    /\ menu_pc' = "menu"
    /\ n_alive' = n_alive + 1
    /\ UNCHANGED budget
    /\ UNCHANGED is_monitoring
    /\ UNCHANGED <<codecVars, senderVars>>
    /\ UNCHANGED toolVars

\* lines 285-292 and 296-298: the test, the filter prompt, Thread(...).start()
Menu_StartMonitor(mac) ==
    /\ menu_pc = "menu"
    /\ IF ~MonitorAlive
       THEN /\ m_target_mac' = IF mac # <<>> THEN mac ELSE None
            /\ m_pc' = "start"
            /\ sockets' = <<>>
            /\ m_sock' = "none"
            /\ m_i' = 1
            /\ m_raised' = FALSE
            /\ m_data' = <<>>
            /\ last' = NoReceive
            /\ events' = <<>>
            /\ errors' = <<>>
            /\ after_stop' = <<0, 0>>
            /\ polled' = <<>>
            /\ menu_pc' = "input"
            /\ n_alive' = n_alive + 1
            /\ UNCHANGED budget
       ELSE UNCHANGED <<monitorVars, menu_pc, n_alive>>
    /\ UNCHANGED is_monitoring
    /\ UNCHANGED <<codecVars, senderVars>>
    /\ UNCHANGED toolVars

\* lines 293-294: input() returns, self.is_monitoring = False
Menu_Stop ==
    /\ menu_pc = "input"
    /\ is_monitoring' = FALSE
    /\ menu_pc' = "join"
    /\ UNCHANGED n_alive
    /\ UNCHANGED <<codecVars, senderVars, monitorVars>>
    /\ UNCHANGED toolVars

\* line 295: self.monitor_thread.join() returns once the thread has ended
Menu_Join ==
    /\ menu_pc = "join"
    /\ m_pc = "done"
    /\ menu_pc' = "menu"
    /\ UNCHANGED <<is_monitoring, n_alive>>
    /\ UNCHANGED <<codecVars, senderVars, monitorVars>>
    /\ UNCHANGED toolVars

\* line 174: self.is_monitoring = True
WM_Start ==
    /\ m_pc = "start"
    /\ is_monitoring' = TRUE
    /\ m_pc' = "bind"
    /\ m_i' = 1
    /\ UNCHANGED <<m_target_mac, sockets, m_sock, m_raised, m_data, last, events, errors,
                   budget, after_stop, polled>>
    /\ UNCHANGED <<menu_pc, n_alive>>
    /\ UNCHANGED <<codecVars, senderVars>>
    /\ UNCHANGED toolVars

\* lines 179-184, one port of the for loop
WM_Bind(o) ==
    /\ m_pc = "bind"
    /\ IF o = "ok"
       THEN /\ sockets' = Append(sockets, Socket(Ports[m_i]))
            /\ IF m_i = Len(Ports)
               THEN m_pc' = "loop" /\ m_i' = 1
               ELSE m_pc' = "bind" /\ m_i' = m_i + 1
            /\ UNCHANGED <<m_sock, errors>>
       ELSE /\ m_sock' = IF o = "socket" THEN "none" ELSE "open"
            /\ errors' = Append(errors, "Error in monitor")
            /\ m_pc' = "finally"
            /\ UNCHANGED <<sockets, m_i>>
    /\ UNCHANGED <<m_target_mac, m_raised, m_data, last, events, budget, after_stop, polled>>
    /\ UNCHANGED <<codecVars, senderVars, managerVars>>
    /\ UNCHANGED toolVars

\* the loop that never looks at the flag
WM_LoopTest_WhileTrue ==
    /\ m_pc = "loop"
    /\ m_pc' = "recv"
    /\ m_i' = 1
    /\ polled' = <<>>
    /\ UNCHANGED <<m_target_mac, sockets, m_sock, m_raised, m_data, last, events, errors,
                   budget, after_stop>>
    /\ UNCHANGED <<codecVars, senderVars, managerVars>>
    /\ UNCHANGED toolVars

\* line 193: while self.is_monitoring
WM_LoopTest ==
    /\ m_pc = "loop"
    /\ IF is_monitoring
       THEN m_pc' = "recv" /\ m_i' = 1
       ELSE m_pc' = "finally" /\ m_i' = m_i
    /\ polled' = IF is_monitoring THEN <<>> ELSE polled
    /\ UNCHANGED <<m_target_mac, sockets, m_sock, m_raised, m_data, last, events, errors,
                   budget, after_stop>>
    /\ UNCHANGED <<codecVars, senderVars, managerVars>>
    /\ UNCHANGED toolVars

\* the loop without the inner `except Exception`: a receive error reaches the
\* outer handler and ends the session
WM_Recv_ErrorEndsSession(o) ==
    /\ m_pc = "recv"
    /\ o.kind # "timeout" => budget > 0
    /\ LET p == sockets[m_i].port
           mac_str == mac_str_of(o.data)
       IN  IF o.kind = "timeout"
           THEN /\ last' = Received("timeout", p, FALSE, FALSE)
                /\ UNCHANGED <<m_data, events, errors, budget>>
           ELSE IF o.kind = "error"
           THEN /\ last' = Received("error", p, FALSE, is_monitoring)
                /\ errors' = Append(errors, "Error in monitor")
                /\ budget' = budget - 1
                /\ UNCHANGED <<m_data, events>>
           ELSE /\ m_data' = o.data
                /\ budget' = budget - 1
                /\ UNCHANGED errors
                /\ IF /\ Len(o.data) = 102
                      /\ slice(o.data, 0, 6) = repeat(<<255>>, 6)
                      /\ (~truthy(m_target_mac) \/ lower(mac_str) = lower(m_target_mac))
                   THEN /\ last' = Received("data", p, TRUE, FALSE)
                        /\ events' = Append(events, Event(p, mac_str, o.data))
                   ELSE /\ last' = Received("data", p, FALSE, FALSE)
                        /\ UNCHANGED events
    /\ after_stop' = [after_stop EXCEPT ![m_i] =
                         IF is_monitoring THEN @ ELSE Min(@ + 1, AfterStopCap)]
    /\ IF o.kind = "error"
       THEN m_pc' = "finally" /\ m_i' = m_i
       ELSE IF m_i = Len(sockets)
       THEN m_pc' = "loop" /\ m_i' = 1
       ELSE m_pc' = "recv" /\ m_i' = m_i + 1
    /\ polled' = Append(polled, sockets[m_i].port)
    /\ UNCHANGED <<m_target_mac, sockets, m_sock, m_raised>>
    /\ UNCHANGED <<codecVars, senderVars, managerVars>>
    /\ UNCHANGED toolVars

\* the receive step with `break` in place of `continue` at line 210: a timeout
\* leaves the for loop
WM_Recv_TimeoutEndsRound(o) ==
    /\ m_pc = "recv"
    /\ o.kind # "timeout" => budget > 0
    /\ LET p == sockets[m_i].port
           mac_str == mac_str_of(o.data)
       IN  IF o.kind = "timeout"
           THEN /\ last' = Received("timeout", p, FALSE, FALSE)
                /\ UNCHANGED <<m_data, events, errors, budget>>
           ELSE IF o.kind = "error"
           THEN /\ last' = Received("error", p, FALSE, is_monitoring)
                /\ errors' = IF is_monitoring
                             THEN Append(errors, "Error receiving packet")
                             ELSE errors
                /\ budget' = budget - 1
                /\ UNCHANGED <<m_data, events>>
           ELSE /\ m_data' = o.data
                /\ budget' = budget - 1
                /\ UNCHANGED errors
                /\ IF /\ Len(o.data) = 102
                      /\ slice(o.data, 0, 6) = repeat(<<255>>, 6)
                      /\ (~truthy(m_target_mac) \/ lower(mac_str) = lower(m_target_mac))
                   THEN /\ last' = Received("data", p, TRUE, FALSE)
                        /\ events' = Append(events, Event(p, mac_str, o.data))
                   ELSE /\ last' = Received("data", p, FALSE, FALSE)
                        /\ UNCHANGED events
    /\ after_stop' = [after_stop EXCEPT ![m_i] =
                         IF is_monitoring THEN @ ELSE Min(@ + 1, AfterStopCap)]
    /\ IF m_i = Len(sockets) \/ o.kind = "timeout"
       THEN m_pc' = "loop" /\ m_i' = 1
       ELSE m_pc' = "recv" /\ m_i' = m_i + 1
    /\ polled' = Append(polled, sockets[m_i].port)
    /\ UNCHANGED <<m_target_mac, sockets, m_sock, m_raised>>
    /\ UNCHANGED <<codecVars, senderVars, managerVars>>
    /\ UNCHANGED toolVars

\* lines 194-214, one socket of the for loop
WM_Recv(o) ==
    /\ m_pc = "recv"
    /\ o.kind # "timeout" => budget > 0
    /\ LET p == sockets[m_i].port
           mac_str == mac_str_of(o.data)
       IN  IF o.kind = "timeout"
           THEN /\ last' = Received("timeout", p, FALSE, FALSE)
                /\ UNCHANGED <<m_data, events, errors, budget>>
           ELSE IF o.kind = "error"
           THEN /\ last' = Received("error", p, FALSE, is_monitoring)
                /\ errors' = IF is_monitoring
                             THEN Append(errors, "Error receiving packet")
                             ELSE errors
                /\ budget' = budget - 1
                /\ UNCHANGED <<m_data, events>>
           ELSE /\ m_data' = o.data
                /\ budget' = budget - 1
                /\ UNCHANGED errors
                /\ IF /\ Len(o.data) = 102
                      /\ slice(o.data, 0, 6) = repeat(<<255>>, 6)
                      /\ (~truthy(m_target_mac) \/ lower(mac_str) = lower(m_target_mac))
                   THEN /\ last' = Received("data", p, TRUE, FALSE)
                        /\ events' = Append(events, Event(p, mac_str, o.data))
                   ELSE /\ last' = Received("data", p, FALSE, FALSE)
                        /\ UNCHANGED events
    /\ after_stop' = [after_stop EXCEPT ![m_i] =
                         IF is_monitoring THEN @ ELSE Min(@ + 1, AfterStopCap)]
    /\ IF m_i = Len(sockets)
       THEN m_pc' = "loop" /\ m_i' = 1
       ELSE m_pc' = "recv" /\ m_i' = m_i + 1
    /\ polled' = Append(polled, sockets[m_i].port)
    /\ UNCHANGED <<m_target_mac, sockets, m_sock, m_raised>>
    /\ UNCHANGED <<codecVars, senderVars, managerVars>>
    /\ UNCHANGED toolVars

\* lines 218-223
WM_Finally(raises) ==
    /\ m_pc = "finally"
    /\ sockets' = CloseAll(sockets, raises)
    /\ m_pc' = "done"
    /\ UNCHANGED <<m_target_mac, m_sock, m_i, m_raised, m_data, last, events, errors,
                   budget, after_stop, polled>>
    /\ n_alive' = n_alive - 1
    /\ UNCHANGED <<is_monitoring, menu_pc>>
    /\ UNCHANGED <<codecVars, senderVars>>
    /\ UNCHANGED toolVars

\* WoLManager.__init__, the menu shown
ManagerInit ==
    /\ CodecIdle
    /\ SenderIdle
    /\ is_monitoring = FALSE
    /\ menu_pc = "menu"
    /\ n_alive = 0
    /\ m_target_mac = None
    /\ sockets = <<>>
    /\ m_sock = "none"
    /\ m_pc = "none"
    /\ m_i = 1
    /\ m_raised = FALSE
    /\ m_data = <<>>
    /\ last = NoReceive
    /\ events = <<>>
    /\ errors = <<>>
    /\ budget = MaxDatagrams
    /\ after_stop = <<0, 0>>
    /\ polled = <<>>
    /\ ToolsIdle

\* the steps of the monitor thread
MonitorThread ==
    \/ WM_Start
    \/ \E o \in BindOutcomes : WM_Bind(o)
    \/ WM_LoopTest
    \/ \E o \in RecvOutcomes : WM_Recv(o)
    \/ \E raises \in SUBSET (1..Len(sockets)) : WM_Finally(raises)

ManagerNext ==
    \/ \E mac \in MenuFilterInputs : Menu_StartMonitor(mac)
    \/ Menu_Stop
    \/ Menu_Join
    \/ MonitorThread

ManagerSpec == ManagerInit /\ [][ManagerNext]_vars


\* WoLManager with its web thread: the /wake route (line 693) calls
\* wol_manager.send_wol_packet(mac_address, broadcast) on the same object while
\* the menu thread and the monitor thread run
WebSendInit ==
    /\ CodecIdle
    /\ mac_address = mac_text(SampleMacs[1], <<":">>, HexLower)
    /\ broadcast = "255.255.255.255"
    /\ port = 9
    /\ variant = "manager"
    /\ mac_bytes = <<>>
    /\ magic_packet = <<>>
    /\ sock = "none"
    /\ recv_socket = "none"
    /\ oscalls = <<>>
    /\ ret = "pending"
    /\ is_monitoring = FALSE
    /\ menu_pc = "menu"
    /\ n_alive = 0
    /\ m_target_mac = None
    /\ sockets = <<>>
    /\ m_sock = "none"
    /\ m_pc = "none"
    /\ m_i = 1
    /\ m_raised = FALSE
    /\ m_data = <<>>
    /\ last = NoReceive
    /\ events = <<>>
    /\ errors = <<>>
    /\ budget = WebDatagrams
    /\ after_stop = <<0, 0>>
    /\ polled = <<>>
    /\ ToolsIdle

WebSendNext ==
    \/ ManagerNext
    \/ \E os \in ManagerOutcomes : WoLManager_send_wol_packet(os)

WebSendSpec == WebSendInit /\ [][WebSendNext]_vars

\* a started thread keeps being scheduled, and join returns once the thread
\* has ended; nothing makes the user press Enter
FairManagerSpec ==
    ManagerSpec /\ WF_vars(MonitorThread) /\ WF_vars(Menu_Join)

-----------------------------------------------------------------------------
(* check_windows_wol_support (wake_on_lan_script.py lines 67-116): the       *)
(* registry lookup and the netsh command, their outcomes drawn in the        *)
(* initial state                                                             *)

\* what a subkey of the class key leads to: its NetCfgInstanceId equals the
\* interface, differs from it, is missing (FileNotFoundError), or reading the
\* subkey raises something else
SubkeyKinds == {"match", "other", "no_value", "error"}

\* winreg.OpenKey / QueryInfoKey on the class key
OpenOutcomes == {"ok", "error"}

\* subprocess.check_output: returns, raises CalledProcessError, raises
\* anything else
NetshOutcomes == {"ok", "CalledProcessError", "other"}

\* all sequences over S of length at most n
SeqsUpTo(S, n) == UNION {[1..k -> S] : k \in 0..n}

SupportInit ==
    /\ CodecIdle
    /\ SenderIdle
    /\ MonitorIdle
    /\ ManagerIdle
    /\ InfoIdle
    /\ MainIdle
    /\ RouteIdle
    /\ w_open \in OpenOutcomes
    /\ w_subkeys \in SeqsUpTo(SubkeyKinds, MaxSubkeys)
    /\ w_netsh \in NetshOutcomes
    /\ w_k = 1
    /\ w_notes = <<>>
    /\ wol_support = FALSE
    /\ w_pc = "open"

\* lines 80-81 and 95-96: opening the class key
W_Open ==
    /\ w_pc = "open"
    /\ IF w_open = "error"
       THEN /\ w_notes' = Append(w_notes, "Registry check failed")
            /\ w_pc' = "netsh"
       ELSE /\ w_notes' = w_notes
            /\ w_pc' = IF w_subkeys = <<>> THEN "netsh" ELSE "subkeys"
    /\ UNCHANGED <<w_open, w_subkeys, w_netsh, w_k, wol_support>>
    /\ UNCHANGED <<codecVars, senderVars, monitorVars, managerVars>>
    /\ UNCHANGED <<infoVars, mainVars, routeVars>>

\* lines 82-94: one iteration of the loop over the subkeys
W_Subkey ==
    /\ w_pc = "subkeys"
    /\ IF w_subkeys[w_k] = "match"
       THEN /\ w_notes' = Append(w_notes, "Network adapter found in registry")
            /\ w_pc' = "netsh"
            /\ w_k' = w_k
       ELSE /\ w_notes' = w_notes
            /\ IF w_k = Len(w_subkeys)
               THEN w_pc' = "netsh" /\ w_k' = w_k
               ELSE w_pc' = "subkeys" /\ w_k' = w_k + 1
    /\ UNCHANGED <<w_open, w_subkeys, w_netsh, wol_support>>
    /\ UNCHANGED <<codecVars, senderVars, monitorVars, managerVars>>
    /\ UNCHANGED <<infoVars, mainVars, routeVars>>

\* lines 99-111: the netsh command; an exception other than
\* CalledProcessError reaches the outer handler of line 110
W_Netsh ==
    /\ w_pc = "netsh"
    /\ w_notes' = Append(w_notes,
                         IF w_netsh = "ok" THEN "Netsh configuration retrieved"
                         ELSE IF w_netsh = "CalledProcessError" THEN "Netsh error"
                         ELSE "Unexpected error")
    /\ w_pc' = "flag"
    /\ UNCHANGED <<w_open, w_subkeys, w_netsh, w_k, wol_support>>
    /\ UNCHANGED <<codecVars, senderVars, monitorVars, managerVars>>
    /\ UNCHANGED <<infoVars, mainVars, routeVars>>

\* the flag computed from the registry note alone
W_Flag_RegistryNoteOnly ==
    /\ w_pc = "flag"
    /\ wol_support' = (\E i \in 1..Len(w_notes) :
                          w_notes[i] = "Network adapter found in registry")
    /\ w_pc' = "done"
    /\ UNCHANGED <<w_open, w_subkeys, w_netsh, w_k, w_notes>>
    /\ UNCHANGED <<codecVars, senderVars, monitorVars, managerVars>>
    /\ UNCHANGED <<infoVars, mainVars, routeVars>>

\* lines 114-116: wol_support = len(notes) > 0, return
W_Flag ==
    /\ w_pc = "flag"
    /\ wol_support' = (Len(w_notes) > 0)
    /\ w_pc' = "done"
    /\ UNCHANGED <<w_open, w_subkeys, w_netsh, w_k, w_notes>>
    /\ UNCHANGED <<codecVars, senderVars, monitorVars, managerVars>>
    /\ UNCHANGED <<infoVars, mainVars, routeVars>>

SupportNext == W_Open \/ W_Subkey \/ W_Netsh \/ W_Flag

SupportSpec == SupportInit /\ [][SupportNext]_vars

-----------------------------------------------------------------------------
(* get_comprehensive_network_info (wake_on_lan_script.py lines 11-65): what  *)
(* netifaces and psutil answer for each interface is drawn in the initial    *)
(* state                                                                     *)

\* netifaces.ifaddresses(interface) for AF_LINK: an entry with 'addr', no
\* AF_LINK entry at all, or the lookup raises (line 29)
LinkAnswers == {"addr", "absent", "raises"}

\* for AF_INET: a first entry with 'addr', no entry, or a first entry without
\* the key 'addr' (KeyError at line 34)
Ipv4Answers == {"addr", "none", "no_addr_key"}

\* psutil.net_if_stats(): the interface with isup true or false, the
\* interface absent from the answer, or the query raises
StatsAnswers == {"up", "down", "absent", "raises"}

InterfaceAnswers == [link : LinkAnswers, ipv4 : Ipv4Answers, stats : StatsAnswers]

\* the name netifaces.interfaces() lists at position k
InterfaceName(k) == <<"if", k>>

\* lines 37-46: the status of an interface
is_up_of(a) ==
    IF a.ipv4 = "addr" THEN TRUE
    ELSE IF a.stats = "raises" THEN FALSE
    ELSE IF a.stats = "absent" THEN FALSE
    ELSE a.stats = "up"

\* lines 49-58: interface_details
interface_details(k, a, system) ==
    [name |-> InterfaceName(k),
     mac_address |-> IF a.link = "addr" THEN "mac" ELSE "N/A",
     ipv4_address |-> IF a.ipv4 = "addr" THEN "ip" ELSE "N/A",
     is_up |-> is_up_of(a),
     wol_keys |-> system = "Windows"]

InfoInit ==
    /\ CodecIdle
    /\ SenderIdle
    /\ MonitorIdle
    /\ ManagerIdle
    /\ SupportIdle
    /\ MainIdle
    /\ RouteIdle
    /\ i_system \in {"Windows", "Linux"}
    /\ i_interfaces \in SeqsUpTo(InterfaceAnswers, MaxInterfaces)
    /\ i_k = 1
    /\ network_interfaces = <<>>
    /\ i_printed = <<>>
    /\ i_pc = "loop"

\* one iteration of the loop with the try around the whole loop: the first
\* interface that raises ends the listing
I_Interface_ErrorEndsLoop ==
    /\ i_pc = "loop"
    /\ i_k <= Len(i_interfaces)
    /\ LET a == i_interfaces[i_k]
       IN  IF a.link = "raises" \/ a.ipv4 = "no_addr_key"
           THEN /\ i_printed' = Append(i_printed, InterfaceName(i_k))
                /\ i_pc' = "done"
                /\ UNCHANGED network_interfaces
           ELSE /\ network_interfaces' =
                       Append(network_interfaces, interface_details(i_k, a, i_system))
                /\ UNCHANGED <<i_printed, i_pc>>
    /\ i_k' = i_k + 1
    /\ UNCHANGED <<i_system, i_interfaces>>
    /\ UNCHANGED <<codecVars, senderVars, monitorVars, managerVars>>
    /\ UNCHANGED <<supportVars, mainVars, routeVars>>

\* lines 26-63: one iteration of the loop over the interfaces
I_Interface ==
    /\ i_pc = "loop"
    /\ i_k <= Len(i_interfaces)
    /\ LET a == i_interfaces[i_k]
       IN  IF a.link = "raises" \/ a.ipv4 = "no_addr_key"
           THEN /\ i_printed' = Append(i_printed, InterfaceName(i_k))
                /\ UNCHANGED network_interfaces
           ELSE /\ network_interfaces' =
                       Append(network_interfaces, interface_details(i_k, a, i_system))
                /\ UNCHANGED i_printed
    /\ i_k' = i_k + 1
    /\ UNCHANGED <<i_system, i_interfaces, i_pc>>
    /\ UNCHANGED <<codecVars, senderVars, monitorVars, managerVars>>
    /\ UNCHANGED <<supportVars, mainVars, routeVars>>

\* line 65: return network_info
I_Return ==
    /\ i_pc = "loop"
    /\ i_k > Len(i_interfaces)
    /\ i_pc' = "done"
    /\ UNCHANGED <<i_system, i_interfaces, i_k, network_interfaces, i_printed>>
    /\ UNCHANGED <<codecVars, senderVars, monitorVars, managerVars>>
    /\ UNCHANGED <<supportVars, mainVars, routeVars>>

InfoNext == I_Interface \/ I_Return

InfoSpec == InfoInit /\ [][InfoNext]_vars

-----------------------------------------------------------------------------
(* main and generate_wol_configuration_file (wake_on_lan_script.py lines     *)
(* 118-132 and 194-217). A dict is a function from its keys; the network     *)
(* info main works on (from get_comprehensive_network_info, or whatever      *)
(* stands in for it) is drawn in the initial state                           *)

\* dict.get(key, default)
get(d, key, default) == IF key \in DOMAIN d THEN d[key] ELSE default

InterfaceKeys == {"name", "mac_address", "ipv4_address", "is_up"}

\* a value for each textual key of an interface record
SampleValue(key) ==
    IF key = "name" THEN "eth0"
    ELSE IF key = "mac_address" THEN "00:11:22:33:44:55"
    ELSE "192.168.1.100"

\* interface records with any of their keys missing
InterfaceDicts ==
    UNION {{[key \in S |-> IF key = "is_up" THEN u ELSE SampleValue(key)] : u \in BOOLEAN}
             : S \in SUBSET InterfaceKeys}

\* {}, a dict without the key network_interfaces, and dicts with the list
NetworkInfos ==
    {<<>>, [invalid_key |-> "invalid_value"]}
    \cup {[network_interfaces |-> l] : l \in SeqsUpTo(InterfaceDicts, MaxRecords)}

MainInit ==
    /\ CodecIdle
    /\ SenderIdle
    /\ MonitorIdle
    /\ ManagerIdle
    /\ InfoIdle
    /\ SupportIdle
    /\ RouteIdle
    /\ network_info \in NetworkInfos
    /\ g_write \in {"ok", "error"}
    /\ config_file = None
    /\ g_out = <<>>
    /\ main_k = 1
    /\ main_raised = FALSE
    /\ main_pc = "info"

\* lines 196-199: network_info is there, print(json.dumps(network_info))
Main_PrintInfo ==
    /\ main_pc = "info"
    /\ g_out' = Append(g_out, <<"json">>)
    /\ main_pc' = "config"
    /\ UNCHANGED <<network_info, g_write, config_file, main_k, main_raised>>
    /\ UNCHANGED <<codecVars, senderVars, monitorVars, managerVars>>
    /\ UNCHANGED <<infoVars, supportVars, routeVars>>

\* generate_wol_configuration_file without its try/except: the write failure
\* leaves main
Main_Config_FailureRaises ==
    /\ main_pc = "config"
    /\ IF g_write = "ok"
       THEN /\ g_out' = Append(g_out, <<"saved">>)
            /\ config_file' = <<"wol_config.json">>
            /\ main_pc' = "guide"
            /\ UNCHANGED main_raised
       ELSE /\ main_raised' = TRUE
            /\ main_pc' = "done"
            /\ UNCHANGED <<g_out, config_file>>
    /\ UNCHANGED <<network_info, g_write, main_k>>
    /\ UNCHANGED <<codecVars, senderVars, monitorVars, managerVars>>
    /\ UNCHANGED <<infoVars, supportVars, routeVars>>

\* line 202 and lines 118-132: config_file = generate_wol_configuration_file(...)
Main_Config ==
    /\ main_pc = "config"
    /\ IF g_write = "ok"
       THEN /\ g_out' = Append(g_out, <<"saved">>)
            /\ config_file' = <<"wol_config.json">>
       ELSE /\ g_out' = Append(g_out, <<"failed">>)
            /\ config_file' = None
    /\ main_pc' = "guide"
    /\ UNCHANGED <<network_info, g_write, main_k, main_raised>>
    /\ UNCHANGED <<codecVars, senderVars, monitorVars, managerVars>>
    /\ UNCHANGED <<infoVars, supportVars, routeVars>>

\* lines 205-211: the guide and the heading of the listing
Main_Guide ==
    /\ main_pc = "guide"
    /\ g_out' = g_out \o << <<"guide">>, <<"heading">> >>
    /\ main_k' = 1
    /\ main_pc' = "list"
    /\ UNCHANGED <<network_info, g_write, config_file, main_raised>>
    /\ UNCHANGED <<codecVars, senderVars, monitorVars, managerVars>>
    /\ UNCHANGED <<infoVars, supportVars, routeVars>>

\* the listing with iface.get("is_up", True)
Main_List_DefaultReady ==
    LET l == get(network_info, "network_interfaces", <<>>)
    IN  /\ main_pc = "list"
        /\ main_k <= Len(l)
        /\ LET iface == l[main_k]
               status == IF get(iface, "is_up", TRUE)
                         THEN "Potentially WoL-Ready" ELSE "Not Ready"
           IN  g_out' = Append(g_out, <<"interface",
                                        get(iface, "name", "Unknown"),
                                        get(iface, "mac_address", "N/A"),
                                        get(iface, "ipv4_address", "N/A"),
                                        status>>)
        /\ main_k' = main_k + 1
        /\ UNCHANGED <<network_info, g_write, config_file, main_raised, main_pc>>
        /\ UNCHANGED <<codecVars, senderVars, monitorVars, managerVars>>
        /\ UNCHANGED <<infoVars, supportVars, routeVars>>

\* lines 212-217: one iteration of the loop over the interface records
Main_List ==
    LET l == get(network_info, "network_interfaces", <<>>)
    IN  /\ main_pc = "list"
        /\ main_k <= Len(l)
        /\ LET iface == l[main_k]
               status == IF get(iface, "is_up", FALSE)
                         THEN "Potentially WoL-Ready" ELSE "Not Ready"
           IN  g_out' = Append(g_out, <<"interface",
                                        get(iface, "name", "Unknown"),
                                        get(iface, "mac_address", "N/A"),
                                        get(iface, "ipv4_address", "N/A"),
                                        status>>)
        /\ main_k' = main_k + 1
        /\ UNCHANGED <<network_info, g_write, config_file, main_raised, main_pc>>
        /\ UNCHANGED <<codecVars, senderVars, monitorVars, managerVars>>
        /\ UNCHANGED <<infoVars, supportVars, routeVars>>

\* the loop is over, main returns
Main_Return ==
    /\ main_pc = "list"
    /\ main_k > Len(get(network_info, "network_interfaces", <<>>))
    /\ main_pc' = "done"
    /\ UNCHANGED <<network_info, g_write, config_file, g_out, main_k, main_raised>>
    /\ UNCHANGED <<codecVars, senderVars, monitorVars, managerVars>>
    /\ UNCHANGED <<infoVars, supportVars, routeVars>>

MainNext == Main_PrintInfo \/ Main_Config \/ Main_Guide \/ Main_List \/ Main_Return

MainSpec == MainInit /\ [][MainNext]_vars

-----------------------------------------------------------------------------
(* The /wake route (app.py lines 19-48, wol_manager.py lines 683-701): one   *)
(* request, drawn in the initial state; the route calls the sender above     *)

\* values of the key mac_address in a request: null, "", two spellings of a
\* MAC address, and a text that is none
RequestMacs ==
    {None, <<>>,
     mac_text(SampleMacs[1], <<":">>, HexLower),
     mac_text(SampleMacs[2], <<"-">>, HexUpper),
     <<"n","o","t","-","a","-","m","a","c">>}

\* JSON objects with any of the two keys missing
RequestBodies ==
    UNION {{[key \in S |-> IF key = "mac_address" THEN m ELSE "192.168.3.255"]
               : m \in RequestMacs}
             : S \in SUBSET {"mac_address", "broadcast"}}

\* request.json: a JSON object, or none (no JSON body, null, or not an object)
Requests ==
    {[is_object |-> FALSE, body |-> <<>>]}
    \cup {[is_object |-> TRUE, body |-> b] : b \in RequestBodies}

RouteInit ==
    /\ CodecIdle
    /\ MonitorIdle
    /\ ManagerIdle
    /\ InfoIdle
    /\ SupportIdle
    /\ MainIdle
    /\ mac_address = <<>>
    /\ broadcast = "255.255.255.255"
    /\ port = 9
    /\ variant = "script"
    /\ mac_bytes = <<>>
    /\ magic_packet = <<>>
    /\ sock = "none"
    /\ recv_socket = "none"
    /\ oscalls = <<>>
    /\ ret = "n/a"
    /\ r_app \in {"app", "manager"}
    /\ r_request \in Requests
    /\ r_sends = <<>>
    /\ r_response = <<>>
    /\ r_pc = "request"

\* the answer of the route
Response(status, key) == [status |-> status, key |-> key]

\* app.py lines 22-32, wol_manager.py lines 686-693: up to the call of
\* send_wol_packet(mac_address, broadcast); data.get on something that is not
\* a dict raises and is answered by the handler of the last lines
Route_Request ==
    /\ r_pc = "request"
    /\ IF ~r_request.is_object
       THEN /\ r_response' = Response(500, "error")
            /\ r_pc' = "done"
            /\ UNCHANGED <<r_sends, senderVars>>
       ELSE LET mac == get(r_request.body, "mac_address", None)
                b == get(r_request.body, "broadcast", "255.255.255.255")
            IN  IF ~truthy(mac)
                THEN /\ r_response' = Response(400, "error")
                     /\ r_pc' = "done"
                     /\ UNCHANGED <<r_sends, senderVars>>
                ELSE /\ r_sends' = Append(r_sends, <<mac, b>>)
                     /\ mac_address' = mac
                     /\ broadcast' = b
                     /\ port' = 9
                     /\ variant' = IF r_app = "app" THEN "script" ELSE "manager"
                     /\ ret' = "pending"
                     /\ r_pc' = "send"
                     /\ UNCHANGED <<mac_bytes, magic_packet, sock, recv_socket, oscalls,
                                    r_response>>
    /\ UNCHANGED <<r_app, r_request>>
    /\ UNCHANGED <<codecVars, monitorVars, managerVars>>
    /\ UNCHANGED <<infoVars, supportVars, mainVars>>

\* app.py lines 36-45, wol_manager.py lines 695-698: the answer after send
\* returned
Route_Answer ==
    /\ r_pc = "send"
    /\ ret \in {"True", "False"}
    /\ r_response' = IF ret = "True" THEN Response(200, "message")
                                      ELSE Response(500, "error")
    /\ r_pc' = "done"
    /\ UNCHANGED <<r_app, r_request, r_sends>>
    /\ UNCHANGED <<codecVars, senderVars, monitorVars, managerVars>>
    /\ UNCHANGED <<infoVars, supportVars, mainVars>>

RouteNext ==
    \/ Route_Request
    \/ \E os \in ScriptOutcomes : send_wol_packet(os)
    \/ \E os \in ManagerOutcomes : WoLManager_send_wol_packet(os)
    \/ Route_Answer

RouteSpec == RouteInit /\ [][RouteNext]_vars

-----------------------------------------------------------------------------
(* Properties *)

\* text without its ':' and '-' separators
Stripped(text) == replace(replace(text, ":"), "-")

\* x is exactly 12 hexadecimal characters
TwelveHex(x) == Len(x) = 12 /\ \A i \in 1..12 : IsHexChar(x[i])

\* the datagrams the call passed to sendto
SentDatagrams == {oscalls[i].data : i \in {j \in 1..Len(oscalls) : oscalls[j].op = "sendto"}}

\* C1: a MAC text that is not exactly 12 hex characters once ':' and '-' are
\* removed makes send_wol_packet return failure, and nothing is passed to sendto.
C1_InvalidMacFails ==
    (ret # "pending" /\ ~TwelveHex(Stripped(mac_address)))
        => (ret = "False" /\ SentDatagrams = {})

\* C2: for a 6-byte MAC the packet built by send_wol_packet (and the one handed
\* to sendto) is 102 bytes long, bytes 0..5 are 0xFF and bytes 6..101 are the
\* MAC repeated 16 times.
C2_PacketLayout ==
    (ret # "pending" /\ Len(mac_bytes) = 6)
        => /\ Len(magic_packet) = 102
           /\ \A i \in 1..6 : magic_packet[i] = 255
           /\ \A i \in 7..102 : magic_packet[i] = mac_bytes[((i - 7) % 6) + 1]
           /\ SentDatagrams \subseteq {magic_packet}

C2_Witness ==
    /\ ret = "True"
    /\ mac_bytes = SampleMacs[1]
    /\ SentDatagrams # {}

\* the canonical rendering of a 12-digit text: lower case, colon after every
\* second digit
Canonical(x) ==
    LET y == lower(x)
    IN  <<y[1], y[2], ":", y[3], y[4], ":", y[5], y[6], ":",
          y[7], y[8], ":", y[9], y[10], ":", y[11], y[12]>>

\* C3: for a MAC text in any accepted form, decoding without a filter the
\* packet encoded from it succeeds and returns the MAC as six 2-digit lowercase
\* hex groups joined by colons, denoting the bytes that were encoded.
C3_RoundTrip ==
    (/\ c_result # <<>>
     /\ c_target_mac = None
     /\ TwelveHex(Stripped(c_mac_address))
     /\ c_data = c_encoded[1].magic_packet)
        => /\ c_encoded[1].ok
           /\ Len(c_result) = 2
           /\ c_result[1] = TRUE
           /\ c_result[2] = Canonical(Stripped(c_mac_address))
           /\ fromhex(Stripped(c_result[2])).bytes = c_encoded[1].mac_bytes

C3_Witness ==
    /\ c_result # <<>>
    /\ c_target_mac = None
    /\ c_mac_address = mac_text(SampleMacs[3], <<"-">>, HexUpper)
    /\ c_data = c_encoded[1].magic_packet
    /\ Len(c_result) = 2

\* the first six bytes of data are all 0xFF
SyncOk(data) == Len(data) >= 6 /\ \A i \in 1..6 : data[i] = 255

\* data with the bytes 12..101 replaced by b
TailVariants(data) == {overwrite(data, 12, 102, b) : b \in {0, 1, 255}}

\* C4: without a target filter is_wol_packet reports a match exactly when the
\* datagram is 102 bytes long and starts with six 0xFF bytes, and the result is
\* the same whatever bytes 12..101 are.
C4_NoFilterMatch ==
    (c_result # <<>> /\ c_target_mac = None)
        => /\ (c_result[1] = TRUE) <=> (Len(c_data) = 102 /\ SyncOk(c_data))
           /\ \A d \in TailVariants(c_data) : is_wol_packet(d, None) = c_result

C4_Witness ==
    /\ c_result # <<>>
    /\ c_target_mac = None
    /\ Len(c_data) = 102
    /\ c_data[13] # c_data[7]
    /\ c_result[1] = TRUE

\* the twelve lowercase hex digits of six bytes
HexDigits(bytes) ==
    [i \in 1..12 |-> IF i % 2 = 1 THEN HexLower[(bytes[(i + 1) \div 2] \div 16) + 1]
                                  ELSE HexLower[(bytes[i \div 2] % 16) + 1]]

\* C5: with a target filter, is_wol_packet on a structurally valid packet
\* succeeds exactly when the filter, separators removed and case ignored, is
\* the embedded MAC.
C5_FilterMatch ==
    (/\ c_result # <<>>
     /\ truthy(c_target_mac)
     /\ Len(c_data) = 102
     /\ SyncOk(c_data))
        => ((c_result[1] = TRUE)
              <=> (lower(Stripped(c_target_mac)) = HexDigits(SubSeq(c_data, 7, 12))))

C5_Witness ==
    /\ c_result # <<>>
    /\ c_mac_address = mac_text(SampleMacs[1], <<":">>, HexLower)
    /\ c_target_mac = mac_text(SampleMacs[1], <<"-">>, HexUpper)
    /\ c_data = c_encoded[1].magic_packet
    /\ c_result[1] = TRUE

\* C10: when send_wol_packet has returned, the sending socket it opened is
\* closed, on the error paths too.
C10_SendSocketClosed ==
    ret # "pending" => sock \in {"none", "closed"}

\* the filter text denotes exactly these six bytes
Denotes(text, bytes) ==
    /\ TwelveHex(Stripped(text))
    /\ fromhex(Stripped(text)).bytes = bytes

\* C6: in the WoLManager monitor loop a received valid magic packet produces an
\* event whenever the filter text denotes the embedded MAC, typed with colons,
\* with dashes or without separators, in either case.
C6_FilterInsensitive ==
    (/\ last.kind = "data"
     /\ Len(m_data) = 102
     /\ SyncOk(m_data)
     /\ truthy(m_target_mac)
     /\ Denotes(m_target_mac, SubSeq(m_data, 7, 12)))
        => last.emitted

\* the datagram is a magic packet that passes the filter
Matching(d, t) ==
    /\ Len(d) = 102
    /\ SyncOk(d)
    /\ truthy(t) => lower(Stripped(t)) = HexDigits(SubSeq(d, 7, 12))

\* C7: a received datagram that is not a matching magic packet is discarded
\* silently by the monitor: no event, no error report, and the loop goes on.
C7_SilentDiscard ==
    (/\ last.kind = "data"
     /\ ~Matching(m_data, m_target_mac))
        => (~last.emitted /\ ~last.reported /\ m_pc \in {"recv", "finally", "done"})

AllClosed == \A i \in 1..Len(sockets) : sockets[i].state = "closed"

\* the loop is running and the flag has been cleared
StopSeen == m_pc \in {"loop", "recv"} /\ ~is_monitoring

\* C8: once the WoLManager loop is running and is_monitoring is False, at most
\* one further receive attempt is made per bound port, the loop exits, and
\* every bound socket is then closed.
C8_Cancellation ==
    /\ [](\A i \in 1..Len(after_stop) : after_stop[i] <= 1)
    /\ [](m_pc = "done" => AllClosed)
    /\ StopSeen ~> (m_pc = "done" /\ AllClosed)

C8_Witness ==
    /\ m_pc = "done"
    /\ menu_pc = "join"
    /\ Len(sockets) = Len(Ports)
    /\ AllClosed
    /\ after_stop = <<1, 1>>

\* C9: a stop issued by the menu thread at any time after the monitor thread
\* was started is not lost: the monitor thread ends and the join returns.
C9_StopNotLost ==
    (menu_pc = "join") ~> (m_pc = "done" /\ menu_pc = "menu")

\* the session reported a set-up error (bind, socket option, socket creation)
SetupFailed == \E i \in 1..Len(errors) : errors[i] = "Error setting up monitor"

\* C11: when monitor_wol_packets has returned after an entry-level error, every
\* socket the session created is closed, the one whose set-up failed included.
C11_AllCreatedClosed ==
    (m_pc = "done" /\ SetupFailed) => (AllClosed /\ m_sock # "open")

\* C12: a bind failure on any port fails the whole session: no receive is ever
\* attempted, on the ports bound before the failure either, and the sockets
\* already bound are closed.
C12_NoPartialMonitor ==
    SetupFailed
        => /\ m_pc \in {"finally", "done"}
           /\ last = NoReceive
           /\ polled = <<>>
           /\ m_pc = "done" => AllClosed

C12_Witness ==
    /\ SetupFailed
    /\ m_pc = "done"
    /\ Len(sockets) = 1
    /\ sockets[1].port = 7
    /\ sockets[1].state = "closed"

\* C13: teardown is best-effort: when the monitor thread has ended, a close was
\* attempted on every bound socket, whichever of the close calls raised, and
\* no exception left the monitor.
C13_BestEffortClose ==
    m_pc = "done"
        => /\ \A i \in 1..Len(sockets) : sockets[i].state = "closed"
           /\ ~m_raised

C13_Witness ==
    /\ m_pc = "done"
    /\ menu_pc = "join"
    /\ Len(sockets) = 2
    /\ sockets[1].close_raised
    /\ sockets[2].state = "closed"
    /\ ~m_raised

AllOpen == \A i \in 1..Len(sockets) : sockets[i].state = "open"

\* a recvfrom has just raised an error other than a timeout
ReceiveErrorStep == budget' = budget - 1 /\ last'.kind = "error"

\* C14: a receive error other than a timeout in a running round is reported
\* (while is_monitoring is still True) and does not end the session: the loop
\* goes on to the next socket or the next round and the sockets stay open.
C14_ErrorKeepsSession ==
    /\ [][ReceiveErrorStep
            => /\ is_monitoring => errors' = Append(errors, "Error receiving packet")
               /\ sockets' = sockets
               /\ IF m_i < Len(sockets)
                  THEN m_pc' = "recv" /\ m_i' = m_i + 1
                  ELSE m_pc' = "loop"]_vars
    /\ [](m_pc \in {"loop", "recv"} => AllOpen)

C14_Witness ==
    /\ errors = <<"Error receiving packet">>
    /\ is_monitoring
    /\ m_pc = "recv"
    /\ last.kind = "timeout"
    /\ last.port = 9
    /\ AllOpen

\* positions of the sendto calls of the call
SendtoCalls == {i \in 1..Len(oscalls) : oscalls[i].op = "sendto"}

\* C15: a successful send_wol_packet makes exactly one sendto, of the whole
\* packet to (broadcast, port), and the broadcast option was set on that socket
\* before it.
C15_OneSendAfterOption ==
    ret = "True"
        => /\ Cardinality(SendtoCalls) = 1
           /\ \A i \in SendtoCalls :
                 /\ oscalls[i].sock = "sock"
                 /\ oscalls[i].data = magic_packet
                 /\ oscalls[i].addr = <<broadcast, port>>
                 /\ ~oscalls[i].raised
                 /\ \E j \in 1..(i - 1) :
                       /\ oscalls[j].op = "setsockopt"
                       /\ oscalls[j].sock = "sock"
                       /\ ~oscalls[j].raised

C15_Witness ==
    /\ ret = "True"
    /\ variant = "manager"
    /\ broadcast = "192.168.3.255"
    /\ port = 7
    /\ mac_bytes = SampleMacs[2]

SendtoSucceeded == \E i \in SendtoCalls : ~oscalls[i].raised

\* the sock.close() that follows the response listen raised
FinalCloseRaised ==
    \E i \in 1..Len(oscalls) :
        oscalls[i].op = "close" /\ oscalls[i].sock = "sock" /\ oscalls[i].raised

\* C16: once sendto has succeeded the call reports success however the
\* response listen ends (socket or bind failure, timeout, other receive error):
\* a failure is never due to the listen.
C16_ListenNeverFailsSend ==
    (variant = "script" /\ ret # "pending" /\ SendtoSucceeded /\ ~FinalCloseRaised)
        => ret = "True"

C16_Witness ==
    /\ variant = "script"
    /\ ret = "True"
    /\ \E i \in 1..Len(oscalls) : oscalls[i].op = "bind" /\ oscalls[i].raised

\* the ports of the sockets of the list, in list order
BoundPorts == [i \in 1..Len(sockets) |-> sockets[i].port]

\* a recvfrom that timed out
TimeoutStep ==
    /\ m_pc = "recv"
    /\ polled' = Append(polled, sockets[m_i].port)
    /\ last'.kind = "timeout"

\* C17: in each round every bound port gets exactly one receive attempt, in
\* the listed order, and a timeout moves on to the next socket of the round
\* without an error report.
C17_RoundOrder ==
    /\ [](m_pc \in {"loop", "recv"} => BoundPorts = Ports)
    /\ [](m_pc = "recv" => polled = SubSeq(BoundPorts, 1, m_i - 1))
    /\ [](m_pc = "loop" => polled \in {<<>>, BoundPorts})
    /\ [][TimeoutStep => /\ errors' = errors
                         /\ events' = events
                         /\ IF m_i < Len(sockets)
                            THEN m_pc' = "recv" /\ m_i' = m_i + 1
                            ELSE m_pc' = "loop"]_vars

C17_Witness ==
    /\ m_pc = "loop"
    /\ polled = <<7, 9>>
    /\ budget = MaxDatagrams - 1
    /\ last.kind = "data"
    /\ last.port = 9
    /\ errors = <<>>

\* a recvfrom that returned a datagram
DatagramStep == m_pc = "recv" /\ budget' = budget - 1 /\ last'.kind = "data"

\* a new session starts with no events
SessionStart == m_pc' = "start" /\ events' = <<>>

\* C18: the monitor emits exactly one event, carrying the port of the socket
\* that read it, for each received datagram that is a magic packet passing the
\* session's filter, and no event at any other step.
C18_OneEventPerMatch ==
    [][IF DatagramStep
       THEN events' = IF Matching(m_data', m_target_mac)
                      THEN Append(events, Event(sockets[m_i].port, mac_str_of(m_data'), m_data'))
                      ELSE events
       ELSE events' = events \/ SessionStart]_vars

\* Thread(...).start() at line 291
ThreadStart == n_alive' = n_alive + 1

\* C19: at most one monitor thread is alive in the WoLManager process, and the
\* menu starts a monitor thread only when none is alive.
C19_SingleSession ==
    /\ [](n_alive <= 1)
    /\ [](n_alive = IF MonitorAlive THEN 1 ELSE 0)
    /\ [][ThreadStart => (~MonitorAlive /\ n_alive = 0)]_vars

\* a second session, started after the first one has ended
C19_Witness ==
    /\ n_alive = 1
    /\ m_pc = "start"
    /\ menu_pc = "input"
    /\ budget < MaxDatagrams

\* the content of the trace printed by send_wol_packet
TraceFields == {"target_mac", "broadcast", "port", "bytes"}

\* C20: the result returned by send_wol_packet carries the trace content
\* fields: target MAC, broadcast address, port and byte count.
C20_ResultCarriesTrace ==
    ret # "pending" => TraceFields \subseteq returned_fields(ret)

\* the step in which a send_wol_packet call runs
SendStep == ret = "pending" /\ ret' # "pending"

\* C21: WoLManager.send_wol_packet, run while a monitor session is in any of
\* its states, leaves is_monitoring, the monitor thread and the monitor's
\* sockets as they were, and makes socket calls on its own socket only.
C21_SendFrame ==
    /\ [][SendStep => UNCHANGED <<is_monitoring, n_alive, monitorVars>>]_vars
    /\ [](\A i \in 1..Len(oscalls) : oscalls[i].sock = "sock")

\* a send has completed while the monitor is between two receives
C21_Witness ==
    /\ ret = "True"
    /\ is_monitoring
    /\ m_pc = "recv"
    /\ m_i = 2
    /\ AllOpen

\* C24: when send_wol_packet has returned, the response-listen socket it
\* opened is closed, also when its bind failed or recvfrom raised an error
\* other than a timeout.
C24_ListenSocketClosed ==
    ret # "pending" => recv_socket \in {"none", "closed"}

\* the registry lookup found the adapter
FoundInRegistry ==
    \E i \in 1..Len(w_notes) : w_notes[i] = "Network adapter found in registry"

\* C27: check_windows_wol_support returns wol_support = true for every
\* combination of outcomes of the registry lookup and the netsh command: the
\* notes are never empty when the flag is computed, so the flag is the same
\* whether the adapter was found in the registry or not.
C27_AlwaysSupported ==
    /\ w_pc = "flag" => w_notes # <<>>
    /\ w_pc = "done" => wol_support

\* returned true for an adapter that is not in the registry, netsh failing
C27_Witness ==
    /\ w_pc = "done"
    /\ wol_support
    /\ ~FoundInRegistry
    /\ w_open = "ok"
    /\ Len(w_subkeys) = 2
    /\ w_netsh = "CalledProcessError"

\* processing the interface raised
ProcessingRaised(a) == a.link = "raises" \/ a.ipv4 = "no_addr_key"

\* positions of the interfaces whose processing did not raise
Processed == {k \in 1..Len(i_interfaces) : ~ProcessingRaised(i_interfaces[k])}

\* C26: get_comprehensive_network_info returns one record per interface
\* whose processing did not raise, in order, the others being skipped; is_up
\* is true when the interface has an IPv4 address, and otherwise equals the
\* psutil isup flag, false when the interface is absent from the stats or the
\* stats query raised.
C26_RecordsAndStatus ==
    i_pc = "done"
        => /\ Len(network_interfaces) = Cardinality(Processed)
           /\ \A k \in Processed :
                 \E j \in 1..Len(network_interfaces) :
                    /\ network_interfaces[j].name = InterfaceName(k)
                    /\ j = Cardinality({h \in Processed : h <= k})
                    /\ LET a == i_interfaces[k]
                           r == network_interfaces[j]
                       IN  /\ a.ipv4 = "addr" => r.is_up
                           /\ (a.ipv4 = "none" /\ a.stats = "up") => r.is_up
                           /\ (a.ipv4 = "none" /\ a.stats \in {"down", "absent", "raises"})
                                 => ~r.is_up

\* the first interface raised, the second is reported, without address and
\* with the stats query raising
C26_Witness ==
    /\ i_pc = "done"
    /\ Len(i_interfaces) = 2
    /\ i_interfaces[1].link = "raises"
    /\ Len(network_interfaces) = 1
    /\ network_interfaces[1].name = InterfaceName(2)
    /\ i_interfaces[2].ipv4 = "none"
    /\ i_interfaces[2].stats = "raises"
    /\ ~network_interfaces[1].is_up

\* the interface records of the network info main works on
Records ==
    IF "network_interfaces" \in DOMAIN network_info
    THEN network_info["network_interfaces"] ELSE <<>>

IsInterfaceLine(line) == line[1] = "interface"

\* the interface lines main printed, in order
InterfaceLines == SelectSeq(g_out, IsInterfaceLine)

\* C22: main prints one interface line per record of the network info, with
\* status "Potentially WoL-Ready" exactly when the record has is_up and it is
\* true and "Not Ready" otherwise, a missing name as "Unknown", a missing MAC
\* or IP as "N/A"; without the key network_interfaces, or with an empty list,
\* it prints no interface line.
C22_InterfaceListing ==
    main_pc = "done"
        => /\ Len(InterfaceLines) = Len(Records)
           /\ \A j \in 1..Len(Records) :
                 LET d == Records[j]
                     line == InterfaceLines[j]
                 IN  /\ line[5] \in {"Potentially WoL-Ready", "Not Ready"}
                     /\ line[5] = "Potentially WoL-Ready"
                           <=> ("is_up" \in DOMAIN d /\ d["is_up"])
                     /\ line[2] = IF "name" \in DOMAIN d THEN d["name"] ELSE "Unknown"
                     /\ line[3] = IF "mac_address" \in DOMAIN d THEN d["mac_address"] ELSE "N/A"
                     /\ line[4] = IF "ipv4_address" \in DOMAIN d THEN d["ipv4_address"] ELSE "N/A"
           /\ ("network_interfaces" \notin DOMAIN network_info \/ Records = <<>>)
                 => InterfaceLines = <<>>

\* the second of the test's records (only a MAC) after the first (only a name)
C22_Witness ==
    /\ main_pc = "done"
    /\ Len(Records) = 2
    /\ DOMAIN Records[1] = {"name"}
    /\ DOMAIN Records[2] = {"mac_address"}
    /\ InterfaceLines[1] = <<"interface", "eth0", "N/A", "N/A", "Not Ready">>
    /\ InterfaceLines[2] = <<"interface", "Unknown", "00:11:22:33:44:55", "N/A", "Not Ready">>

\* C23: a write failure in generate_wol_configuration_file is reported, gives
\* None and is never raised; main prints the guide, the heading and the whole
\* interface listing after it, as it does when the write succeeds.
C23_ConfigFailureContained ==
    /\ ~main_raised
    /\ main_pc \in {"guide", "list", "done"}
          => /\ config_file = IF g_write = "ok" THEN <<"wol_config.json">> ELSE None
             /\ g_out[2] = IF g_write = "ok" THEN <<"saved">> ELSE <<"failed">>
    /\ main_pc = "done"
          => /\ g_out[3] = <<"guide">>
             /\ g_out[4] = <<"heading">>
             /\ Len(g_out) = 4 + Len(Records)
             /\ SubSeq(g_out, 5, Len(g_out)) = InterfaceLines

C23_Witness ==
    /\ main_pc = "done"
    /\ g_write = "error"
    /\ config_file = None
    /\ Len(InterfaceLines) = 2

\* the request carries a mac_address
HasMacAddress ==
    /\ r_request.is_object
    /\ "mac_address" \in DOMAIN r_request.body
    /\ truthy(r_request.body["mac_address"])

\* the broadcast address the request asks for
RequestedBroadcast ==
    IF r_request.is_object /\ "broadcast" \in DOMAIN r_request.body
    THEN r_request.body["broadcast"] ELSE "255.255.255.255"

\* C25: the /wake route answers 400 and sends nothing when the request has no
\* mac_address; otherwise it calls send exactly once, with the request's
\* broadcast address or 255.255.255.255, and answers 200 exactly when send
\* reported success and 500 when it reported failure.
C25_WakeRoute ==
    r_pc = "done"
        => IF ~HasMacAddress
           THEN r_response.status = 400 /\ r_sends = <<>>
           ELSE /\ r_sends = << <<r_request.body["mac_address"], RequestedBroadcast>> >>
                /\ r_response.status = 200 <=> ret = "True"
                /\ r_response.status = 500 <=> ret = "False"

====
